---- MODULE Spec2Model ----
(***************************************************************************)
(* The guestbook application of src/app.py and src/db.py: the submission   *)
(* pipeline of POST /sign (CSRF, honeypot, validation, profanity filter,   *)
(* redirect allowlist, per-IP rate limit, persistence), the cookie session *)
(* with its CSRF token and is_admin flag, and the admin handlers.          *)
(*                                                                         *)
(* Strings whose characters matter (name, message, the blocklist) are      *)
(* tuples of characters; the three Korean blocklist words are written by   *)
(* their romanised syllables.                                              *)
(*                                                                         *)
(* Time is counted in seconds.  clock is the wall clock datetime.utcnow()  *)
(* reads: it never runs backwards here, and two readings may be equal      *)
(* (requests served at once, a coarse clock, or a storage engine that      *)
(* keeps whole seconds).                                                   *)
(*                                                                         *)
(* Each handler is a function of the state and the request (sign,          *)
(* admin_login, ...) that returns the response and the new state, and an   *)
(* action (Sign, AdminLogin, ...) that applies it.  Seven specifications   *)
(* share the actions: Spec (the submission pipeline), SpecRate (the rate   *)
(* limit on two hosts), SpecAdmin (the admin and two sessions), SpecConc   *)
(* (sign statement by statement on two threads), SpecContent (names and    *)
(* messages at the edges of the validation), SpecFailure (writes that      *)
(* fail) and SpecStore (one browser that signs, reads and deletes).        *)
(***************************************************************************)
EXTENDS Integers, Sequences, FiniteSets, TLC

VARIABLES
    session,       \* session id -> [csrf: <<>> or <<token>>, is_admin: BOOLEAN]
    recent_posts,  \* client ip -> sequence of accepted timestamps (app.py:49)
    entries,       \* the rows of table Guestbook
    clock,         \* what datetime.utcnow() returns
    resp,          \* the response to the latest request
    accepted,      \* history: client ip -> the latest LIMIT + 1 accepted timestamps
    loggedIn,      \* history: session id -> a correct password was ever supplied
    lastCreated,   \* history: id of the row the latest write created, 0 after a delete
    throttled,     \* history: client ip -> a submission was ever refused by the rate limit
    counts,        \* history: client ip -> timestamps ever recorded, rows ever persisted
    pc,            \* thread -> position in sign (concurrent specification)
    local          \* thread -> the locals of sign (concurrent specification)

vars == <<session, recent_posts, entries, clock, resp, accepted, loggedIn,
          lastCreated, throttled, counts, pc, local>>

----------------------------------------------------------------------------
(* Bounds of the model *)

MaxClock == 60
MaxEntries == 4
MaxConcClock == 30
MaxStoreClock == 30

(* Program constants *)

WINDOW_SEC == 60
LIMIT == 3
NAME_MAX == 30
MESSAGE_MAX == 500
LISTING_LIMIT == 50

BAD_WORDS == { <<"ba", "bo">>, <<"yok", "seol">>, <<"seu", "paem">> }
ADMIN_PASS == "changeme"
ALLOWED_REDIRECTS == {"/tromperie", "/verite"}
DEFAULT_REDIRECT == "/tromperie"

ERR_CSRF == "security check failed"
ERR_SPAM == "blocked as spam"
ERR_EMPTY == "empty value"
ERR_LONG == "too long"
ERR_BAD_WORD == "inappropriate word"
ERR_RATE == "posting too often"
ERR_PASSWORD == "wrong password"
ERR_LOGIN == "login required"
ERR_CSRF_ADMIN == "security check failure"

----------------------------------------------------------------------------
(* The inputs the environment sends *)

Rep(n, c) == [i \in 1..n |-> c]

Sessions == {"s1", "s2"}
Tokens == {"t1", "t2"}
CsrfFields == {""} \cup Tokens
Hosts == {"", "10.0.0.1"}
Websites == {"", "http://spam.example"}
Redirects == {"/tromperie", "/verite", "https://evil.example"}
Passwords == {"changeme", "guess"}
Names == { <<>>, <<" ", "n", " ">>, Rep(NAME_MAX + 1, "n") }
Messages == { <<" ", " ">>, <<"m", " ">>, Rep(MESSAGE_MAX + 1, "m"),
              <<"m", "ba", "bo", "m">> }
TickSteps == {30}
Delays == {0, 30}
Threads == {1, 2}

ValidName == <<" ", "n", " ">>
ValidMessage == <<"m", " ">>

(* The requests POST /sign is sent: every choice of session, host,        *)
(* redirect and csrf field, with at most one of name, message and website *)
(* invalid, or with all three invalid.                                    *)
Invalid(req) ==
    (IF req.name # ValidName THEN 1 ELSE 0)
    + (IF req.message # ValidMessage THEN 1 ELSE 0)
    + (IF req.website # "" THEN 1 ELSE 0)

SignRequests ==
    { req \in [s : Sessions, host : Hosts, name : Names, message : Messages,
               redirect : Redirects, website : Websites, csrf : CsrfFields] :
        Invalid(req) <= 1 \/ (Invalid(req) = 3 /\ req.redirect \notin {"/verite"}) }

(* Names and messages at the edges of the validation: only whitespace,    *)
(* whitespace of every kind around the text, NAME_MAX and MESSAGE_MAX     *)
(* characters after the trim and one more, whitespace and a blocklisted   *)
(* word inside a name, each blocklisted word, and the syllables of one    *)
(* apart.                                                                 *)
ContentNames ==
    { <<" ", "\t">>, <<"\t", "n", "\n">>,
      <<" ">> \o Rep(NAME_MAX - 3, "n") \o <<" ", "ba", "bo", " ">>,
      Rep(NAME_MAX + 1, "n") }
ContentMessages ==
    { <<"\n">>, <<" ", "m", "\t">>,
      <<" ", "ba", "m", "bo">> \o Rep(MESSAGE_MAX - 3, "m"),
      Rep(MESSAGE_MAX + 1, "m") \o <<" ">>,
      <<"m", "ba", "bo">>, <<"yok", "seol", "m">>, <<" ", "seu", "paem", " ">> }

----------------------------------------------------------------------------
(* Helpers *)

Whitespace == {" ", "\t", "\n"}

RECURSIVE lstrip(_)
lstrip(s) ==
    IF s = <<>> THEN s
    ELSE IF Head(s) \in Whitespace THEN lstrip(Tail(s)) ELSE s

RECURSIVE rstrip(_)
rstrip(s) ==
    IF s = <<>> THEN s
    ELSE IF s[Len(s)] \in Whitespace THEN rstrip(SubSeq(s, 1, Len(s) - 1)) ELSE s

strip(s) == rstrip(lstrip(s))

Contains(sub, s) ==
    \E i \in 1..(Len(s) - Len(sub) + 1) : SubSeq(s, i, i + Len(sub) - 1) = sub

NoSession == [csrf |-> <<>>, is_admin |-> FALSE]

(* Mutant of csrf_token: every call stores a new token. *)
csrf_token_regenerates(sess, fresh) == [sess EXCEPT !.csrf = <<fresh>>]

csrf_token(sess, fresh) ==
    IF sess.csrf = <<>> THEN [sess EXCEPT !.csrf = <<fresh>>] ELSE sess

(* Mutants of verify_csrf: a session without a token accepts any token;   *)
(* any non-empty token is accepted.                                       *)
verify_csrf_unset(sess, token) ==
    token # "" /\ (sess.csrf = <<>> \/ sess.csrf = <<token>>)
verify_csrf_present(sess, token) == token # ""

verify_csrf(sess, token) == token # "" /\ sess.csrf = <<token>>

(* Mutant of is_admin: any session that holds something is an admin. *)
is_admin_any_session(sess) == sess # NoSession

is_admin(sess) == sess.is_admin

(* A response, with the route that answered: a 303 to path?error=... or  *)
(* path#fragment, or a rendered template with the entries passed to it.  *)
RedirectTo(route, path, error, fragment) ==
    [route |-> route, status |-> 303, path |-> path, error |-> error,
     fragment |-> fragment, entries |-> <<>>]

(* An exception no handler catches: the framework answers 500. *)
ServerError(route) ==
    [route |-> route, status |-> 500, path |-> "", error |-> "",
     fragment |-> "", entries |-> <<>>]

Page(route, template, listing) ==
    [route |-> route, status |-> 200, path |-> template, error |-> "",
     fragment |-> "", entries |-> listing]

----------------------------------------------------------------------------
(* The entry store: table Guestbook behind select / add / delete *)

Max(S) == CHOOSE x \in S : \A y \in S : y <= x
Min2(a, b) == IF a < b THEN a ELSE b
Range(f) == { f[i] : i \in DOMAIN f }

(* id is the integer primary key the engine assigns; with the default     *)
(* sqlite:/// URL that is one more than the largest id in the table.      *)
(* Mutant of NextId: the number of rows plus one. *)
NextId_count(es) == Cardinality(es) + 1

NextId(es) == IF es = {} THEN 1 ELSE Max({ e.id : e \in es }) + 1

Guestbook(es, name, message, ip_addr, created_at) ==
    [id |-> NextId(es), name |-> name, message |-> message,
     ip_addr |-> ip_addr, created_at |-> created_at]

(* Mutant of InOrder: ascending order. *)
InOrder_ascending(a, b) == a.created_at <= b.created_at

(* order_by(Guestbook.created_at.desc()): a may be listed before b *)
InOrder(a, b) == a.created_at >= b.created_at

(* Every order in which select ... order_by(created_at desc) may return  *)
(* the rows: rows with equal created_at come in an order the engine       *)
(* chooses.                                                               *)
RECURSIVE Orderings(_)
Orderings(es) ==
    IF es = {} THEN { <<>> }
    ELSE UNION { { <<e>> \o l : l \in Orderings(es \ {e}) } :
                 e \in { e \in es : \A f \in es : InOrder(e, f) } }

(* ... limit n *)
Listings(es, n) == { SubSeq(l, 1, Min2(Len(l), n)) : l \in Orderings(es) }

ListRecent(es) == Listings(es, LISTING_LIMIT)
ListAll(es) == Listings(es, Cardinality(es))

(* Mutant of DeleteById: the rows from id on are deleted. *)
DeleteById_from(es, id) == { e \in es : e.id < id }

DeleteById(es, id) == { e \in es : e.id # id }

----------------------------------------------------------------------------
(* POST /sign *)

ClientIp(host) == IF host = "" THEN "0.0.0.0" ELSE host
IPs == { ClientIp(h) : h \in Hosts }

(* Mutant of Honeypot: the field is not looked at. *)
Honeypot_ignored(website) == FALSE

Honeypot(website) == website # ""
Missing(name, message) == name = <<>> \/ message = <<>>
(* Mutant of TooLong: one character more passes. *)
TooLong_lenient(name, message) ==
    Len(name) > NAME_MAX + 1 \/ Len(message) > MESSAGE_MAX + 1

TooLong(name, message) == Len(name) > NAME_MAX \/ Len(message) > MESSAGE_MAX
Profane(message) == \E bad \in BAD_WORDS : Contains(bad, message)
SafeRedirect(redirect) ==
    IF redirect \notin ALLOWED_REDIRECTS THEN DEFAULT_REDIRECT ELSE redirect

(* Mutant of InWindow: a timestamp exactly WINDOW_SEC old still counts. *)
InWindow_inclusive(t, now) == now - t <= WINDOW_SEC

InWindow(t, now) == now - t < WINDOW_SEC
Prune(window, now) ==
    LET keep(t) == InWindow(t, now) IN SelectSeq(window, keep)

(* Mutant of RateLimited: off by one. *)
RateLimited_off_by_one(window) == Len(window) > LIMIT

RateLimited(window) == Len(window) >= LIMIT

(* Mutant of ContentError: the honeypot is looked at before the token. *)
ContentError_honeypot_first(sess, req) ==
    LET name == strip(req.name)
        message == strip(req.message)
    IN  IF Honeypot(req.website) THEN ERR_SPAM
        ELSE IF ~verify_csrf(sess, req.csrf) THEN ERR_CSRF
        ELSE IF Missing(name, message) THEN ERR_EMPTY
        ELSE IF TooLong(name, message) THEN ERR_LONG
        ELSE IF Profane(message) THEN ERR_BAD_WORD
        ELSE ""

(* The error of the first content check the request fails, "" if none     *)
(* (app.py:110-125).                                                      *)
ContentError(sess, req) ==
    LET name == strip(req.name)
        message == strip(req.message)
    IN  IF ~verify_csrf(sess, req.csrf) THEN ERR_CSRF
        ELSE IF Honeypot(req.website) THEN ERR_SPAM
        ELSE IF Missing(name, message) THEN ERR_EMPTY
        ELSE IF TooLong(name, message) THEN ERR_LONG
        ELSE IF Profane(message) THEN ERR_BAD_WORD
        ELSE ""

(* Mutant of sign: the timestamp is appended before the limit is tested. *)
sign_append_first(req, d) ==
    LET error == ContentError(session[req.s], req)
        redirect == SafeRedirect(req.redirect)
        client_ip == ClientIp(req.host)
        now == clock
        window == Prune(recent_posts[client_ip], now)
        row == Guestbook(entries, strip(req.name), strip(req.message),
                         client_ip, clock + d)
    IN  IF error # ""
        THEN [resp |-> RedirectTo("/sign", req.redirect, error, ""),
              recent_posts |-> recent_posts, entries |-> entries,
              clock |-> clock, created |-> 0]
        ELSE IF RateLimited(window)
        THEN [resp |-> RedirectTo("/sign", redirect, ERR_RATE, ""),
              recent_posts |->
                  [recent_posts EXCEPT ![client_ip] = Append(window, now)],
              entries |-> entries, clock |-> clock, created |-> 0]
        ELSE [resp |-> RedirectTo("/sign", redirect, "", "guestbook"),
              recent_posts |->
                  [recent_posts EXCEPT ![client_ip] = Append(window, now)],
              entries |-> entries \cup {row},
              clock |-> clock + d, created |-> row.id]

(* The whole handler as a function of the state and the request; d is the *)
(* time that passes between the reading of now (app.py:133) and the       *)
(* default_factory of created_at (db.py:13, called at app.py:143).        *)
(* created is the id of the row written, 0 when none is.                  *)
sign(req, d) ==
    LET error == ContentError(session[req.s], req)
        redirect == SafeRedirect(req.redirect)
        client_ip == ClientIp(req.host)
        now == clock
        window == Prune(recent_posts[client_ip], now)
        row == Guestbook(entries, strip(req.name), strip(req.message),
                         client_ip, clock + d)
    IN  IF error # ""
        THEN [resp |-> RedirectTo("/sign", req.redirect, error, ""),
              recent_posts |-> recent_posts, entries |-> entries,
              clock |-> clock, created |-> 0]
        ELSE IF RateLimited(window)
        THEN [resp |-> RedirectTo("/sign", redirect, ERR_RATE, ""),
              recent_posts |-> [recent_posts EXCEPT ![client_ip] = window],
              entries |-> entries, clock |-> clock, created |-> 0]
        ELSE [resp |-> RedirectTo("/sign", redirect, "", "guestbook"),
              recent_posts |->
                  [recent_posts EXCEPT ![client_ip] = Append(window, now)],
              entries |-> entries \cup {row},
              clock |-> clock + d, created |-> row.id]

LastN(s, n) == IF Len(s) <= n THEN s ELSE SubSeq(s, Len(s) - n + 1, Len(s))

Sign(req, d) ==
    LET r == sign(req, d)
        ip == ClientIp(req.host)
    IN  /\ r.created = 0 => d = 0
        /\ r.clock <= MaxClock
        /\ Cardinality(r.entries) <= MaxEntries
        /\ resp' = r.resp
        /\ recent_posts' = r.recent_posts
        /\ entries' = r.entries
        /\ clock' = r.clock
        /\ accepted' = IF r.created = 0 THEN accepted
                       ELSE [accepted EXCEPT
                               ![ip] = LastN(Append(@, clock), LIMIT + 1)]
        /\ lastCreated' = IF r.created = 0 THEN lastCreated ELSE r.created
        /\ throttled' = [throttled EXCEPT ![ip] = @ \/ r.resp.error = ERR_RATE]
        /\ counts' = IF r.created = 0 THEN counts
                     ELSE [counts EXCEPT ![ip].recorded = @ + 1,
                                         ![ip].persisted = @ + 1]
        /\ UNCHANGED <<session, loggedIn, pc, local>>

(* Mutant of sign_write_fails: the timestamp is appended after the write. *)
sign_write_fails_no_slot(req) ==
    LET r == sign(req, 0)
        client_ip == ClientIp(req.host)
    IN  IF r.created = 0 THEN r
        ELSE [resp |-> ServerError("/sign"),
              recent_posts |->
                  [recent_posts EXCEPT ![client_ip] = Prune(@, clock)],
              entries |-> entries, clock |-> clock, created |-> 0]

(* The handler when the write of app.py:142-144 raises (the engine is     *)
(* down, the disk is full): everything up to the append of app.py:139 has *)
(* run, the transaction is not committed, and the exception leaves the    *)
(* handler.                                                               *)
sign_write_fails(req) ==
    LET r == sign(req, 0)
    IN  IF r.created = 0 THEN r
        ELSE [resp |-> ServerError("/sign"), recent_posts |-> r.recent_posts,
              entries |-> entries, clock |-> clock, created |-> 0]

SignWriteFails(req) ==
    LET r == sign_write_fails(req)
        ip == ClientIp(req.host)
    IN  /\ sign(req, 0).created # 0
        /\ resp' = r.resp
        /\ recent_posts' = r.recent_posts
        /\ entries' = r.entries
        /\ clock' = r.clock
        /\ counts' = [counts EXCEPT ![ip].recorded = @ + 1]
        /\ UNCHANGED <<session, accepted, loggedIn, lastCreated, throttled,
                       pc, local>>

----------------------------------------------------------------------------
(* The pages *)

(* GET /tromperie and GET /verite: the same handler but for the template. *)
(* The template holds the form of POST /sign and fills its hidden field   *)
(* with csrf_token(request) (app.py:33-37).                               *)
guestbook_view(s, template, listing, fresh) ==
    [session |-> [session EXCEPT ![s] = csrf_token(@, fresh)],
     resp |-> Page("/guestbook", template, listing)]

GuestbookView(s, template, listing, fresh) ==
    LET r == guestbook_view(s, template, listing, fresh)
    IN  /\ session' = r.session
        /\ resp' = r.resp
        /\ UNCHANGED <<counts, recent_posts, entries, clock, accepted, loggedIn,
                       lastCreated, throttled, pc, local>>

admin_login_page(s) == [session |-> session, resp |-> Page("/admin", "admin_login.html", <<>>)]

AdminLoginPage(s) ==
    /\ resp' = admin_login_page(s).resp
    /\ UNCHANGED <<counts, session, recent_posts, entries, clock, accepted, loggedIn,
                   lastCreated, throttled, pc, local>>

----------------------------------------------------------------------------
(* The admin handlers *)

(* Mutant of PasswordOk: any password that is given passes. *)
PasswordOk_any(password) == password # ""

PasswordOk(password) == password = ADMIN_PASS

(* Mutant of admin_login: the csrf field is not looked at. *)
admin_login_csrf_ignored(s, password, csrf) ==
    IF PasswordOk(password)
    THEN [session |-> [session EXCEPT ![s].is_admin = TRUE],
          resp |-> RedirectTo("/admin/login", "/admin/panel", "", "")]
    ELSE [session |-> session,
          resp |-> RedirectTo("/admin/login", "/admin", ERR_PASSWORD, "")]

admin_login(s, password, csrf) ==
    IF csrf # "" /\ ~verify_csrf(session[s], csrf)
    THEN [session |-> session, resp |-> RedirectTo("/admin/login", "/admin", ERR_CSRF, "")]
    ELSE IF PasswordOk(password)
    THEN [session |-> [session EXCEPT ![s].is_admin = TRUE],
          resp |-> RedirectTo("/admin/login", "/admin/panel", "", "")]
    ELSE [session |-> session,
          resp |-> RedirectTo("/admin/login", "/admin", ERR_PASSWORD, "")]

AdminLogin(s, password, csrf) ==
    LET r == admin_login(s, password, csrf)
    IN  /\ session' = r.session
        /\ resp' = r.resp
        /\ loggedIn' = [loggedIn EXCEPT ![s] = @ \/ password = ADMIN_PASS]
        /\ UNCHANGED <<counts, recent_posts, entries, clock, accepted, lastCreated,
                       throttled, pc, local>>

(* Mutant of admin_logout: only the is_admin flag is dropped. *)
admin_logout_keeps_token(s) ==
    [session |-> [session EXCEPT ![s].is_admin = FALSE],
     resp |-> RedirectTo("/admin/logout", "/admin", "", "")]

admin_logout(s) ==
    [session |-> [session EXCEPT ![s] = NoSession],
     resp |-> RedirectTo("/admin/logout", "/admin", "", "")]

AdminLogout(s) ==
    LET r == admin_logout(s)
    IN  /\ session' = r.session
        /\ resp' = r.resp
        /\ UNCHANGED <<counts, recent_posts, entries, clock, accepted, loggedIn,
                       lastCreated, throttled, pc, local>>

(* The panel's template holds the delete forms, each with the hidden      *)
(* csrf_token(request) field.                                             *)
admin_panel(s, listing, fresh) ==
    IF ~is_admin(session[s])
    THEN [session |-> session,
          resp |-> RedirectTo("/admin/panel", "/admin", ERR_LOGIN, ""),
          read |-> FALSE]
    ELSE [session |-> [session EXCEPT ![s] = csrf_token(@, fresh)],
          resp |-> Page("/admin/panel", "admin_panel.html", listing), read |-> TRUE]

AdminPanel(s, listing, fresh) ==
    LET r == admin_panel(s, listing, fresh)
    IN  /\ session' = r.session
        /\ resp' = r.resp
        /\ UNCHANGED <<counts, recent_posts, entries, clock, accepted, loggedIn,
                       lastCreated, throttled, pc, local>>

admin_delete(s, id, csrf) ==
    IF ~is_admin(session[s])
    THEN [entries |-> entries,
          resp |-> RedirectTo("/admin/delete", "/admin", ERR_LOGIN, ""),
          executed |-> FALSE]
    ELSE IF ~verify_csrf(session[s], csrf)
    THEN [entries |-> entries,
          resp |-> RedirectTo("/admin/delete", "/admin/panel", ERR_CSRF_ADMIN, ""),
          executed |-> FALSE]
    ELSE [entries |-> DeleteById(entries, id),
          resp |-> RedirectTo("/admin/delete", "/admin/panel", "", ""),
          executed |-> TRUE]

AdminDelete(s, id, csrf) ==
    LET r == admin_delete(s, id, csrf)
    IN  /\ entries' = r.entries
        /\ resp' = r.resp
        /\ lastCreated' = IF r.executed THEN 0 ELSE lastCreated
        /\ UNCHANGED <<counts, session, recent_posts, clock, accepted, loggedIn,
                       throttled, pc, local>>

(* Time passes between requests. *)
Tick(d) ==
    /\ clock + d <= MaxClock
    /\ clock' = clock + d
    /\ UNCHANGED <<counts, session, recent_posts, entries, resp, accepted, loggedIn,
                   lastCreated, throttled, pc, local>>

----------------------------------------------------------------------------
(* POST /sign statement by statement: sign is a def handler, which the    *)
(* framework runs on a pool of threads, so the statements of two requests *)
(* interleave.  No lock guards recent_posts.                              *)

NoLocal ==
    [client_ip |-> "", now |-> 0, name |-> <<>>, message |-> <<>>, redirect |-> ""]

Goto(t, label) == pc' = [pc EXCEPT ![t] = label]

(* app.py:110-133: the content checks, the redirect allowlist, now *)
SignBegin(t, req) ==
    LET error == ContentError(session[req.s], req)
    IN  /\ pc[t] = "idle"
        /\ IF error # ""
           THEN /\ resp' = RedirectTo("/sign", req.redirect, error, "")
                /\ UNCHANGED <<pc, local>>
           ELSE /\ Goto(t, "prune")
                /\ local' = [local EXCEPT ![t] =
                       [client_ip |-> ClientIp(req.host), now |-> clock,
                        name |-> strip(req.name), message |-> strip(req.message),
                        redirect |-> SafeRedirect(req.redirect)]]
                /\ UNCHANGED resp
        /\ UNCHANGED <<counts, session, recent_posts, entries, clock, accepted, loggedIn,
                       lastCreated, throttled>>

(* app.py:134-136 *)
SignPrune(t) ==
    /\ pc[t] = "prune"
    /\ recent_posts' = [recent_posts EXCEPT
                          ![local[t].client_ip] = Prune(@, local[t].now)]
    /\ Goto(t, "check")
    /\ UNCHANGED <<counts, session, entries, clock, resp, accepted, loggedIn,
                   lastCreated, throttled, local>>

(* app.py:137-138 *)
SignCheck(t) ==
    /\ pc[t] = "check"
    /\ IF RateLimited(recent_posts[local[t].client_ip])
       THEN /\ resp' = RedirectTo("/sign", local[t].redirect, ERR_RATE, "")
            /\ throttled' = [throttled EXCEPT ![local[t].client_ip] = TRUE]
            /\ Goto(t, "idle")
            /\ local' = [local EXCEPT ![t] = NoLocal]
       ELSE /\ Goto(t, "append")
            /\ UNCHANGED <<resp, throttled, local>>
    /\ UNCHANGED <<counts, session, recent_posts, entries, clock, accepted, loggedIn,
                   lastCreated>>

(* app.py:139 *)
SignAppend(t) ==
    /\ pc[t] = "append"
    /\ recent_posts' = [recent_posts EXCEPT
                          ![local[t].client_ip] = Append(@, local[t].now)]
    /\ counts' = [counts EXCEPT ![local[t].client_ip].recorded = @ + 1]
    /\ Goto(t, "save")
    /\ UNCHANGED <<session, entries, clock, resp, accepted, loggedIn,
                   lastCreated, throttled, local>>

(* app.py:142-146 *)
SignSave(t) ==
    LET row == Guestbook(entries, local[t].name, local[t].message,
                         local[t].client_ip, clock)
    IN  /\ pc[t] = "save"
        /\ Cardinality(entries) < MaxEntries
        /\ entries' = entries \cup {row}
        /\ resp' = RedirectTo("/sign", local[t].redirect, "", "guestbook")
        /\ accepted' = [accepted EXCEPT ![local[t].client_ip] =
                           LastN(Append(@, local[t].now), LIMIT + 1)]
        /\ lastCreated' = row.id
        /\ counts' = [counts EXCEPT ![local[t].client_ip].persisted = @ + 1]
        /\ Goto(t, "idle")
        /\ local' = [local EXCEPT ![t] = NoLocal]
        /\ UNCHANGED <<session, recent_posts, clock, loggedIn, throttled>>

----------------------------------------------------------------------------
(* Requests handled one at a time *)

Init ==
    /\ session = [s \in Sessions |-> NoSession]
    /\ recent_posts = [ip \in IPs |-> <<>>]
    /\ entries = {}
    /\ clock = 0
    /\ resp = Page("/", "clue.html", <<>>)
    /\ accepted = [ip \in IPs |-> <<>>]
    /\ loggedIn = [s \in Sessions |-> FALSE]
    /\ lastCreated = 0
    /\ throttled = [ip \in IPs |-> FALSE]
    /\ counts = [ip \in IPs |-> [recorded |-> 0, persisted |-> 0]]
    /\ pc = [t \in Threads |-> "idle"]
    /\ local = [t \in Threads |-> NoLocal]

Ids == 1..(MaxEntries + 1)

(* The submission pipeline: one client sends POST /sign with every kind  *)
(* of content and reads the guestbook.                                   *)
PipelineRequests == { req \in SignRequests : req.s = "s1" /\ req.host = "10.0.0.1" }

Next ==
    \/ \E req \in PipelineRequests, d \in Delays : Sign(req, d)
    \/ \E template \in {"tromperie.html", "verite.html"},
          listing \in ListRecent(entries), fresh \in Tokens :
            GuestbookView("s1", template, listing, fresh)
    \/ \E d \in TickSteps : Tick(d)

Spec == Init /\ [][Next]_vars

(* The rate limit: a client loads the guestbook once, for its token, and *)
(* well-formed submissions arrive from two hosts, with and without that  *)
(* token.                                                                *)
RateRequests ==
    { req \in SignRequests :
        /\ req.s = "s1" /\ req.redirect = "/verite" /\ req.csrf # "t2"
        /\ Invalid(req) = 0 }

NextRate ==
    \/ \E req \in RateRequests, d \in Delays : Sign(req, d)
    \/ \E listing \in ListRecent(entries) :
            /\ session["s1"].csrf = <<>>
            /\ GuestbookView("s1", "verite.html", listing, "t1")
    \/ \E d \in TickSteps : Tick(d)

SpecRate == Init /\ [][NextRate]_vars

(* The admin: two sessions log in and out, read the panel and delete,    *)
(* while well-formed submissions arrive from one host.                   *)
AdminRequests ==
    { req \in SignRequests :
        /\ req.host = "10.0.0.1" /\ req.redirect = "/verite"
        /\ Invalid(req) = 0 }

NextAdmin ==
    \/ \E req \in AdminRequests : Sign(req, 0)
    \/ \E s \in Sessions, listing \in ListRecent(entries), fresh \in Tokens :
            GuestbookView(s, "verite.html", listing, fresh)
    \/ \E s \in Sessions : AdminLoginPage(s)
    \/ \E s \in Sessions, password \in Passwords, csrf \in CsrfFields :
            AdminLogin(s, password, csrf)
    \/ \E s \in Sessions : AdminLogout(s)
    \/ \E s \in Sessions, listing \in ListAll(entries), fresh \in Tokens :
            AdminPanel(s, listing, fresh)
    \/ \E s \in Sessions, id \in Ids, csrf \in CsrfFields :
            AdminDelete(s, id, csrf)

SpecAdmin == Init /\ [][NextAdmin]_vars

(* Concurrent submissions: a client loads the guestbook once, for its     *)
(* token, and the threads of the pool serve its well-formed requests.     *)
ConcRequests ==
    { req \in SignRequests :
        /\ req.s = "s1" /\ req.host = "10.0.0.1" /\ req.redirect = "/verite"
        /\ req.csrf # "t2" /\ Invalid(req) = 0 }

NextConc ==
    \/ \E t \in Threads, req \in ConcRequests : SignBegin(t, req)
    \/ \E t \in Threads : SignPrune(t)
    \/ \E t \in Threads : SignCheck(t)
    \/ \E t \in Threads : SignAppend(t)
    \/ \E t \in Threads : SignSave(t)
    \/ \E listing \in ListRecent(entries) :
            /\ session["s1"].csrf = <<>>
            /\ GuestbookView("s1", "verite.html", listing, "t1")
    \/ \E d \in TickSteps : clock + d <= MaxConcClock /\ Tick(d)

SpecConc == Init /\ [][NextConc]_vars

(* The validation: a client loads the guestbook once, for its token, and  *)
(* submits names and messages at the edges of the validation.             *)
ContentRequests ==
    [s : {"s1"}, host : {"10.0.0.1"}, name : ContentNames,
     message : ContentMessages, redirect : {"/verite"}, website : {""},
     csrf : {"t1"}]

NextContent ==
    \/ \E req \in ContentRequests : Sign(req, 0)
    \/ \E listing \in ListRecent(entries) :
            /\ session["s1"].csrf = <<>>
            /\ GuestbookView("s1", "verite.html", listing, "t1")

SpecContent == Init /\ [][NextContent]_vars

(* Storage failures: a client loads the guestbook once, for its token,   *)
(* and the write of any of its well-formed submissions may fail.          *)
FailureRequests == { req \in RateRequests : req.host = "10.0.0.1" }

NextFailure ==
    \/ \E req \in FailureRequests, d \in Delays : Sign(req, d)
    \/ \E req \in FailureRequests : SignWriteFails(req)
    \/ \E listing \in ListRecent(entries) :
            /\ session["s1"].csrf = <<>>
            /\ GuestbookView("s1", "verite.html", listing, "t1")
    \/ \E d \in TickSteps : Tick(d)

SpecFailure == Init /\ [][NextFailure]_vars

(* The store: one browser signs under two names and with a blank name,    *)
(* reads the pages, logs in, deletes and logs out, while time passes.     *)
StoreRequests ==
    { req \in ContentRequests :
        req.message = <<" ", "m", "\t">> /\ Len(req.name) <= NAME_MAX + 2 }

NextStore ==
    \/ \E req \in StoreRequests : Sign(req, 0)
    \/ \E listing \in ListRecent(entries) :
            /\ session["s1"].csrf = <<>>
            /\ GuestbookView("s1", "verite.html", listing, "t1")
    \/ AdminLoginPage("s1")
    \/ \E password \in Passwords : AdminLogin("s1", password, "")
    \/ AdminLogout("s1")
    \/ \E listing \in ListAll(entries) : AdminPanel("s1", listing, "t1")
    \/ \E id \in Ids : AdminDelete("s1", id, "t1")
    \/ \E d \in TickSteps : clock + d <= MaxStoreClock /\ Tick(d)

SpecStore == Init /\ [][NextStore]_vars


----------------------------------------------------------------------------
(* What the claims speak of *)

SeqMin(s) == CHOOSE x \in Range(s) : \A y \in Range(s) : x <= y

(* The request passes every content check of the session it arrives on. *)
WellFormed(req) == ContentError(session[req.s], req) = ""

(* The accepted submissions of ip that lie in the 60 seconds before now. *)
InLastWindow(ip) ==
    { i \in 1..Len(accepted[ip]) : clock - accepted[ip][i] < WINDOW_SEC }

(* LIMIT + 1 submissions of ip were accepted less than WINDOW_SEC apart. *)
Burst(ip) ==
    /\ Len(accepted[ip]) = LIMIT + 1
    /\ \A i, j \in 1..(LIMIT + 1) : accepted[ip][i] - accepted[ip][j] < WINDOW_SEC

(* C1: under concurrent POST /sign requests from one IP, no interleaving  *)
(* of prune, check and append lets more than 3 submissions of that IP be  *)
(* accepted with timestamps inside one 60-second window.                  *)
C1_AtomicWindow == \A ip \in IPs : ~Burst(ip)

(* C2: with requests handled one at a time, a well-formed submission of   *)
(* an IP that has 3 accepted submissions less than 60 seconds old is      *)
(* refused with the rate-limit error and persists nothing; so no IP ever  *)
(* has 4 submissions accepted within one 60-second window.                *)
C2_RateLimit ==
    /\ \A req \in SignRequests :
         (Cardinality(InLastWindow(ClientIp(req.host))) >= LIMIT /\ WellFormed(req))
         => \A d \in Delays :
               LET r == sign(req, d)
               IN  r.resp.error = ERR_RATE /\ r.entries = entries /\ r.created = 0
    /\ \A ip \in IPs : ~Burst(ip)

C2_Witness ==
    /\ resp.route = "/sign" /\ resp.error = ERR_RATE
    /\ \E ip \in IPs : throttled[ip] /\ Cardinality(InLastWindow(ip)) = LIMIT

(* C3: once 60 seconds have passed since the oldest timestamp recorded    *)
(* for an IP, the next well-formed submission of that IP is accepted and  *)
(* persisted, whatever was refused in between.                            *)
C3_Recovery ==
    \A req \in SignRequests :
       LET window == recent_posts[ClientIp(req.host)]
       IN  (window # <<>> /\ clock - SeqMin(window) >= WINDOW_SEC /\ WellFormed(req))
           => \A d \in Delays :
                 LET r == sign(req, d)
                 IN  /\ r.created # 0
                     /\ r.resp.error = ""
                     /\ \E e \in r.entries \ entries :
                           e.id = r.created /\ e.ip_addr = ClientIp(req.host)

C3_Witness ==
    \E ip \in IPs :
       /\ throttled[ip]
       /\ Len(accepted[ip]) = LIMIT + 1
       /\ accepted[ip][LIMIT] - accepted[ip][1] < WINDOW_SEC
       /\ accepted[ip][LIMIT + 1] - accepted[ip][1] >= WINDOW_SEC
       /\ resp.route = "/sign" /\ resp.fragment = "guestbook"

(* C4: whatever the redirect field holds, on every outcome of POST /sign  *)
(* the Location of the response targets /tromperie or /verite.            *)
C4_SafeRedirect == resp.route = "/sign" => resp.path \in ALLOWED_REDIRECTS

BadToken(req) ==
    \/ req.csrf = ""
    \/ session[req.s].csrf = <<>>
    \/ session[req.s].csrf # <<req.csrf>>

(* C5: a POST /sign whose csrf field is empty, differs from the session's *)
(* token, or arrives on a session without a token persists nothing and is *)
(* answered by a 303 with an error parameter, whatever its other fields.  *)
C5_CsrfRejected ==
    \A req \in SignRequests :
       BadToken(req)
       => \A d \in Delays :
             LET r == sign(req, d)
             IN  /\ r.entries = entries /\ r.created = 0
                 /\ r.resp.status = 303 /\ r.resp.error # ""

C5_Witness ==
    /\ resp.route = "/sign" /\ resp.status = 303 /\ resp.error = ERR_CSRF
    /\ session["s1"].csrf # <<>>
    /\ entries # {}

(* C6: a POST /sign whose honeypot field website is not empty persists    *)
(* nothing, whatever its other fields and the state of the rate limit.    *)
C6_Honeypot ==
    \A req \in SignRequests :
       req.website # ""
       => \A d \in Delays :
             LET r == sign(req, d) IN r.entries = entries /\ r.created = 0

C6_Witness ==
    /\ resp.route = "/sign" /\ resp.error = ERR_SPAM
    /\ entries # {}

(* Fewer than 3 timestamps of ip lie in the window. *)
UnderLimit(ip) ==
    Cardinality({ i \in 1..Len(recent_posts[ip]) :
                    clock - recent_posts[ip][i] < WINDOW_SEC }) < LIMIT

(* A valid POST /sign adds exactly one row, with the trimmed fields. *)
ExactlyOneAdded ==
    \A req \in SignRequests :
       (UnderLimit(ClientIp(req.host)) /\ WellFormed(req))
       => \A d \in Delays :
             LET r == sign(req, d)
             IN  /\ entries \subseteq r.entries
                 /\ Cardinality(r.entries \ entries) = 1
                 /\ \A e \in r.entries \ entries :
                       /\ e.id = r.created
                       /\ e.name = strip(req.name) /\ e.message = strip(req.message)
                       /\ e.ip_addr = ClientIp(req.host)

(* A guestbook page was rendered and the latest write before it created  *)
(* the row lastCreated.                                                   *)
ListedAfterSign == resp.route = "/guestbook" /\ lastCreated # 0

StrictlyLatest ==
    \A e, f \in entries :
       (e.id = lastCreated /\ f.id # lastCreated) => f.created_at < e.created_at

(* C7: a valid POST /sign adds exactly one row, and that row is the first *)
(* element of the next most-recent-first listing taken before any other   *)
(* write.                                                                 *)
C7_ListedFirst ==
    /\ ExactlyOneAdded
    /\ ListedAfterSign
       => (resp.entries # <<>> /\ resp.entries[1].id = lastCreated)

(* What the code does guarantee of that listing: it holds the new row     *)
(* before every row created strictly earlier, so the row is the first     *)
(* element whenever no other row has the same created_at.                 *)
ListedFirstUnlessTied ==
    /\ ExactlyOneAdded
    /\ ListedAfterSign
       => /\ \E i \in 1..Len(resp.entries) :
                /\ resp.entries[i].id = lastCreated
                /\ \A j \in 1..Len(resp.entries) :
                      resp.entries[j].created_at < resp.entries[i].created_at
                      => i < j
          /\ StrictlyLatest => resp.entries[1].id = lastCreated

ListedFirstUnlessTied_Witness ==
    /\ ListedAfterSign
    /\ Cardinality(entries) >= 2
    /\ StrictlyLatest
    /\ resp.entries[1].id = lastCreated

(* C8: in every session state where is_admin is not true, GET             *)
(* /admin/panel answers with a redirect to /admin carrying an error, and  *)
(* neither reads nor renders the entries.                                 *)
C8_PanelGuard ==
    \A s \in Sessions :
       ~session[s].is_admin
       => \A listing \in ListAll(entries), fresh \in Tokens :
             LET r == admin_panel(s, listing, fresh)
             IN  /\ r.resp.status = 303 /\ r.resp.path = "/admin"
                 /\ r.resp.error # ""
                 /\ r.resp.entries = <<>> /\ ~r.read
                 /\ r.session = session

C8_Witness ==
    /\ resp.route = "/admin/panel" /\ resp.status = 303 /\ resp.error = ERR_LOGIN
    /\ entries # {}
    /\ \E s \in Sessions : loggedIn[s] /\ ~session[s].is_admin

(* C9: POST /admin/delete changes the store only when the session has     *)
(* is_admin and the csrf field equals the session's token; no request of  *)
(* a session that never supplied the password deletes anything.           *)
C9_DeleteGuard ==
    \A s \in Sessions, id \in Ids, csrf \in CsrfFields :
       LET r == admin_delete(s, id, csrf)
           authorized == /\ session[s].is_admin
                         /\ csrf # "" /\ session[s].csrf = <<csrf>>
       IN  /\ ~authorized => r.entries = entries /\ ~r.executed
           /\ ~loggedIn[s] => r.entries = entries /\ ~r.executed

C9_Witness ==
    /\ resp.route = "/admin/delete" /\ resp.path = "/admin/panel" /\ resp.error = ""
    /\ entries # {} /\ \A e \in entries : e.id # 1
    /\ \E s \in Sessions : ~loggedIn[s]

(* C10: is_admin becomes true only in a POST /admin/login step, and never *)
(* with a wrong password: that login redirects to /admin with an error    *)
(* and leaves the session as it was.                                      *)
C10_Login ==
    /\ [](\A s \in Sessions, password \in Passwords, csrf \in CsrfFields :
            password # ADMIN_PASS
            => LET r == admin_login(s, password, csrf)
               IN  /\ r.session = session
                   /\ r.resp.status = 303 /\ r.resp.path = "/admin"
                   /\ r.resp.error # "")
    /\ [][\A s \in Sessions :
            (~session[s].is_admin /\ session'[s].is_admin)
            => (resp'.route = "/admin/login" /\ resp'.error = "")]_vars

C10_Witness ==
    /\ resp.route = "/admin/login" /\ resp.error = ERR_PASSWORD
    /\ \E s \in Sessions : session[s].is_admin
    /\ \E s \in Sessions : ~session[s].is_admin /\ session[s].csrf # <<>>

(* C11: GET /admin/logout clears the session whatever it held: the stored *)
(* session has no is_admin and no CSRF token, so no csrf field verifies   *)
(* against it, the other sessions are left alone, and a cleared session   *)
(* is refused by the admin panel and by admin delete.  A cleared session  *)
(* holds something again only through a new login or a page that issues   *)
(* a new token.                                                           *)
C11_LogoutClears ==
    /\ [](\A s \in Sessions :
            LET r == admin_logout(s)
            IN  /\ r.session[s] = NoSession
                /\ ~is_admin(r.session[s])
                /\ r.session[s].csrf = <<>>
                /\ \A csrf \in CsrfFields : ~verify_csrf(r.session[s], csrf)
                /\ \A o \in Sessions \ {s} : r.session[o] = session[o]
                /\ r.resp.status = 303 /\ r.resp.path = "/admin"
                /\ r.resp.error = "")
    /\ [](\A s \in Sessions :
            session[s] = NoSession
            => /\ \A listing \in ListAll(entries), fresh \in Tokens :
                     LET r == admin_panel(s, listing, fresh)
                     IN  r.resp.status = 303 /\ ~r.read /\ r.session = session
               /\ \A id \in Ids, csrf \in CsrfFields :
                     LET r == admin_delete(s, id, csrf)
                     IN  r.entries = entries /\ ~r.executed /\ r.resp.error # "")
    /\ [][\A s \in Sessions :
            (session[s] = NoSession /\ session'[s] # NoSession)
            => resp'.route \in {"/admin/login", "/guestbook"}]_vars

C11_Witness ==
    /\ resp.route = "/admin/logout"
    /\ entries # {}
    /\ \E s \in Sessions : loggedIn[s] /\ session[s] = NoSession
    /\ \E s \in Sessions : session[s].is_admin /\ session[s].csrf # <<>>

(* The session is an admin and the csrf field equals its token. *)
Authorized(s, csrf) == session[s].is_admin /\ csrf # "" /\ session[s].csrf = <<csrf>>

(* C12: an authorized POST /admin/delete removes the row whose id is      *)
(* given, which is at most one row, and leaves every other row as it was; *)
(* when no row has that id the store is unchanged; in both cases the      *)
(* answer is the redirect to /admin/panel without an error.               *)
C12_DeleteFrame ==
    \A s \in Sessions, id \in Ids, csrf \in CsrfFields :
       Authorized(s, csrf)
       => LET r == admin_delete(s, id, csrf)
          IN  /\ r.executed
              /\ r.entries \subseteq entries
              /\ \A e \in entries : e \in r.entries <=> e.id # id
              /\ Cardinality(entries \ r.entries) <= 1
              /\ (\A e \in entries : e.id # id) => r.entries = entries
              /\ r.resp.status = 303 /\ r.resp.path = "/admin/panel"
              /\ r.resp.error = ""

C12_Witness ==
    /\ resp.route = "/admin/delete" /\ resp.path = "/admin/panel" /\ resp.error = ""
    /\ lastCreated = 0
    /\ Cardinality(entries) >= 2
    /\ \E e, f \in entries : e.id + 1 < f.id /\ \A g \in entries : g.id # e.id + 1

(* s has no whitespace at either end. *)
Trimmed(s) == s = <<>> \/ (s[1] \notin Whitespace /\ s[Len(s)] \notin Whitespace)

Blocklisted(message) == \E bad \in BAD_WORDS : Contains(bad, message)

ValidEntry(e) ==
    /\ e.name # <<>> /\ Trimmed(e.name) /\ Len(e.name) <= NAME_MAX
    /\ e.message # <<>> /\ Trimmed(e.message) /\ Len(e.message) <= MESSAGE_MAX
    /\ ~Blocklisted(e.message)

(* The submission, once trimmed, breaks one of the rules of a stored row. *)
Violates(req) ==
    LET name == strip(req.name)
        message == strip(req.message)
    IN  \/ name = <<>> \/ Len(name) > NAME_MAX
        \/ message = <<>> \/ Len(message) > MESSAGE_MAX
        \/ Blocklisted(message)

(* C13: every stored row has a name that is not empty, has no whitespace  *)
(* at its ends and is at most 30 characters long, and a message that is   *)
(* not empty, has no whitespace at its ends, is at most 500 characters    *)
(* long and contains no blocklisted word; a submission that breaks one of *)
(* these after the trim is answered with an error and persists nothing.   *)
C13_StoredValid ==
    /\ \A e \in entries : ValidEntry(e)
    /\ \A req \in ContentRequests :
          Violates(req)
          => LET r == sign(req, 0)
             IN  r.entries = entries /\ r.created = 0 /\ r.resp.error # ""

C13_Witness ==
    /\ resp.route = "/sign" /\ resp.error \in {ERR_EMPTY, ERR_LONG, ERR_BAD_WORD}
    /\ \E e \in entries : Len(e.name) = NAME_MAX /\ Blocklisted(e.name)
    /\ \E e \in entries : Len(e.message) = MESSAGE_MAX
    /\ \E e \in entries : Len(e.name) = 1 /\ Len(e.message) = 1

(* C14: the ids of the stored rows are pairwise distinct; a row present   *)
(* before and after an operation has the same id, name, message, ip_addr  *)
(* and created_at; the store changes only by a POST /sign that adds one   *)
(* row and keeps the others, or by a POST /admin/delete that only removes *)
(* rows, so page views, login and logout leave it as it was.              *)
C14_AppendDeleteOnly ==
    /\ [](\A e, f \in entries : e.id = f.id => e = f)
    /\ [][\A e \in entries, f \in entries' : e.id = f.id => e = f]_vars
    /\ [][entries' # entries
          => \/ /\ resp'.route = "/sign"
                /\ entries \subseteq entries'
                /\ Cardinality(entries' \ entries) = 1
             \/ /\ resp'.route = "/admin/delete"
                /\ entries' \subseteq entries]_vars
    /\ [][(resp'.route = "/sign" /\ resp'.fragment = "guestbook" /\ resp' # resp)
          => Cardinality(entries') = Cardinality(entries) + 1]_vars

C14_Witness ==
    /\ resp.route = "/sign" /\ resp.fragment = "guestbook"
    /\ \E e \in entries : e.id = lastCreated
    /\ \E e, f \in entries : e.name # f.name /\ e.created_at # f.created_at
    /\ \E i \in Ids : i < lastCreated /\ \A e \in entries : e.id # i

(* Every combination of the fields of POST /sign, several of them invalid *)
(* at once.                                                               *)
AnySignRequests ==
    [s : {"s1"}, host : {"10.0.0.1"}, name : Names, message : Messages,
     redirect : Redirects, website : Websites, csrf : CsrfFields]

(* The six rejecting checks in the order of the claim: whether req fails  *)
(* check k in the current state, taken by itself, and the error of each.  *)
Fails(k, req) ==
    CASE k = 1 -> BadToken(req)
      [] k = 2 -> req.website # ""
      [] k = 3 -> strip(req.name) = <<>> \/ strip(req.message) = <<>>
      [] k = 4 -> Len(strip(req.name)) > NAME_MAX
                  \/ Len(strip(req.message)) > MESSAGE_MAX
      [] k = 5 -> Blocklisted(strip(req.message))
      [] k = 6 -> ~UnderLimit(ClientIp(req.host))

CheckErrors == << ERR_CSRF, ERR_SPAM, ERR_EMPTY, ERR_LONG, ERR_BAD_WORD, ERR_RATE >>

(* C15: POST /sign answers with the error of the earliest check the       *)
(* request fails in the order CSRF, honeypot, presence, length,           *)
(* profanity, rate limit, with no error when it fails none, and the six   *)
(* errors are pairwise distinct.                                          *)
C15_CheckOrder ==
    /\ \A i, j \in 1..6 : CheckErrors[i] = CheckErrors[j] => i = j
    /\ \A k \in 1..6 : CheckErrors[k] # ""
    /\ \A req \in AnySignRequests :
          LET error == sign(req, 0).resp.error
          IN  \/ \E k \in 1..6 :
                    /\ Fails(k, req)
                    /\ \A j \in 1..(k - 1) : ~Fails(j, req)
                    /\ error = CheckErrors[k]
              \/ /\ error = ""
                 /\ \A k \in 1..6 : ~Fails(k, req)

C15_Witness ==
    /\ resp.route = "/sign" /\ resp.error = ERR_CSRF
    /\ session["s1"].csrf # <<>>
    /\ resp.path \notin ALLOWED_REDIRECTS
    /\ ~UnderLimit("10.0.0.1")

(* How many times t occurs in the window w. *)
Occurrences(w, t) == Cardinality({ i \in 1..Len(w) : w[i] = t })

(* after holds no timestamp that before does not hold, and holds each of   *)
(* the others as often, in the same order, unless it has expired.          *)
OnlyPruned(before, after) ==
    /\ Len(after) <= Len(before)
    /\ \A t \in Range(before) \cup Range(after) :
          Occurrences(after, t) =
             IF clock - t < WINDOW_SEC THEN Occurrences(before, t) ELSE 0
    /\ \A i, j \in 1..Len(after) : i <= j => after[i] <= after[j]

(* C16: a POST /sign that is answered with an error changes no row; when  *)
(* the error is one of the five content checks recent_posts is unchanged; *)
(* when it is the rate limit the window of the IP only loses its expired  *)
(* timestamps and the other windows are unchanged.  A timestamp is added  *)
(* only when the submission passes every content check, and then it is    *)
(* accepted.                                                              *)
C16_NoSlotOnReject ==
    \A req \in AnySignRequests :
       LET r == sign(req, 0)
           ip == ClientIp(req.host)
       IN  /\ r.resp.error # "" => (r.entries = entries /\ r.created = 0)
           /\ r.resp.error \in {ERR_CSRF, ERR_SPAM, ERR_EMPTY, ERR_LONG, ERR_BAD_WORD}
              => r.recent_posts = recent_posts
           /\ r.resp.error = ERR_RATE
              => /\ OnlyPruned(recent_posts[ip], r.recent_posts[ip])
                 /\ \A o \in IPs \ {ip} : r.recent_posts[o] = recent_posts[o]
           /\ (\E o \in IPs : ~OnlyPruned(recent_posts[o], r.recent_posts[o])
                              /\ r.recent_posts[o] # recent_posts[o])
              => /\ r.resp.error = ""
                 /\ \A k \in 1..5 : ~Fails(k, req)
                 /\ r.created # 0

C16_Witness ==
    /\ resp.route = "/sign"
    /\ resp.error \in {ERR_SPAM, ERR_EMPTY, ERR_LONG, ERR_BAD_WORD}
    /\ throttled["10.0.0.1"]
    /\ Len(recent_posts["10.0.0.1"]) = LIMIT
    /\ clock - recent_posts["10.0.0.1"][1] >= WINDOW_SEC

(* C17: POST /admin/login with an empty csrf field is decided by the      *)
(* password alone, whatever token the session holds or lacks: the right   *)
(* password sets is_admin and redirects to the panel, a wrong one is      *)
(* refused.  With a csrf field that is not empty and differs from the     *)
(* session's token, or on a session without a token, the login is refused *)
(* and the session is left as it was, even with the right password.       *)
C17_LoginCsrfOptional ==
    \A s \in Sessions, password \in Passwords, csrf \in CsrfFields :
       LET r == admin_login(s, password, csrf)
       IN  /\ (csrf = "" /\ password = ADMIN_PASS)
              => /\ r.session[s].is_admin
                 /\ r.resp.path = "/admin/panel" /\ r.resp.error = ""
           /\ (csrf = "" /\ password # ADMIN_PASS)
              => /\ r.session = session
                 /\ r.resp.path = "/admin" /\ r.resp.error = ERR_PASSWORD
           /\ (csrf # "" /\ session[s].csrf # <<csrf>>)
              => /\ r.session = session
                 /\ r.resp.path = "/admin" /\ r.resp.error = ERR_CSRF
           /\ r.session[s].csrf = session[s].csrf

C17_Witness ==
    /\ resp.route = "/admin/login" /\ resp.error = ERR_CSRF
    /\ \E s \in Sessions : session[s].is_admin /\ session[s].csrf = <<>>
    /\ \E s \in Sessions : loggedIn[s] /\ ~session[s].is_admin /\ session[s].csrf # <<>>

(* C18: csrf_token stores the fresh token on a session without one and    *)
(* leaves a session that has one as it is, so a second call returns the   *)
(* same session whatever token is drawn; the token of a session changes   *)
(* in no step but a logout, which removes it; and a csrf field that       *)
(* verifies before a step verifies after it unless the session was        *)
(* cleared.                                                               *)
C18_TokenOnce ==
    /\ [](\A s \in Sessions, fresh \in Tokens, later \in Tokens :
            LET first == csrf_token(session[s], fresh)
            IN  /\ session[s].csrf = <<>> => first.csrf = <<fresh>>
                /\ session[s].csrf # <<>> => first = session[s]
                /\ first.is_admin = session[s].is_admin
                /\ csrf_token(first, later) = first)
    /\ [][\A s \in Sessions :
            (session[s].csrf # <<>> /\ session'[s].csrf # session[s].csrf)
            => (resp'.route = "/admin/logout" /\ session'[s] = NoSession)]_vars
    /\ [][\A s \in Sessions, csrf \in CsrfFields :
            verify_csrf(session[s], csrf)
            => (verify_csrf(session'[s], csrf) \/ session'[s] = NoSession)]_vars

C18_Witness ==
    /\ resp.route \in {"/guestbook", "/admin/panel"} /\ resp.status = 200
    /\ session["s1"].csrf # <<>> /\ session["s2"].csrf # <<>>
    /\ session["s1"].csrf # session["s2"].csrf
    /\ \E s \in Sessions : session[s].is_admin
    /\ entries # {}

(* C19: every IP has at most as many rows ever persisted as timestamps    *)
(* ever recorded, also after writes that failed; and a submission that    *)
(* passes every check and whose write fails leaves the store as it was    *)
(* while its timestamp is in the window of its IP, counted by the rate    *)
(* limit.                                                                 *)
C19_SlotBeforeWrite ==
    /\ \A ip \in IPs : counts[ip].persisted <= counts[ip].recorded
    /\ \A req \in FailureRequests :
          LET ip == ClientIp(req.host)
              ok == sign(req, 0)
              r == sign_write_fails(req)
          IN  ok.created # 0
              => /\ r.entries = entries /\ r.created = 0
                 /\ r.resp.status = 500
                 /\ Len(r.recent_posts[ip]) >= 1
                 /\ r.recent_posts[ip][Len(r.recent_posts[ip])] = clock
                 /\ Occurrences(r.recent_posts[ip], clock)
                       = Occurrences(recent_posts[ip], clock) + 1

C19_Witness ==
    /\ resp.route = "/sign" /\ resp.status = 500
    /\ \E ip \in IPs :
          /\ counts[ip].persisted >= 1
          /\ counts[ip].persisted < counts[ip].recorded
          /\ Len(recent_posts[ip]) = LIMIT

====
